---- MODULE Spec2Model ----
(***************************************************************************)
(* The rack topology manager of src/modules/jackrack/vst2_plugin.c: the    *)
(* doubly linked chain of plugins held by a vst2_process_info_t, its edit  *)
(* operations (add, remove, move, change), the auxiliary port swap, and    *)
(* the creation and destruction of plugins and their holders.              *)
(***************************************************************************)
EXTENDS Integers, Sequences, FiniteSets, TLC

\* Number of vst2_plugin_t objects the control path may allocate.
MaxNodes == 4

\* The null pointer.
NULL == 0

\* Largest control_port_count and status_port_count of a descriptor.
MaxPorts == 2

\* numInputs + numOutputs of the native effect: the ports that precede the
\* parameters in the descriptor's port numbering.
EffectPorts == 2

\* Addresses of the vst2_plugin_t objects.
Nodes == 1..MaxNodes

Ptr == Nodes \cup {NULL}

(***************************************************************************)
(* Plugin descriptors (vst2_plugin_desc_t), consumed read-only.  copies is *)
(* what vst2_plugin_desc_get_copies returns for the context's channels;    *)
(* effect is desc->effect, the handle of the descriptor's native AEffect   *)
(* (here the descriptor's id), NULL when the plugin could not be loaded.   *)
(***************************************************************************)
MkDesc(id, aux, copies, ctl, sta) ==
    [id |-> id, effect |-> id, aux_channels |-> aux, copies |-> copies,
     control_port_count |-> ctl, status_port_count |-> sta]

NoDesc == MkDesc(0, 0, 0, 0, 0)

\* The descriptors the rack is built from: two plugin types with auxiliary
\* channels and one without.
ChainDescs == { MkDesc(1, 2, 2, 1, 0), MkDesc(2, 1, 1, 0, 0), MkDesc(3, 0, 1, 0, 0) }

\* The descriptor the control path passes to vst2_plugin_new for the plugin it
\* creates at address n: three plugins of the first type, then one of the
\* second, then one of the third, and so on.
DescFor(n) ==
    CHOOSE d \in ChainDescs :
        d.id = (IF n % 5 \in 1..3 THEN 1 ELSE IF n % 5 = 4 THEN 2 ELSE 3)

VARIABLES
    jack_client,   \* procinfo->jack_client is non-null
    chain,         \* procinfo->chain
    chain_end,     \* procinfo->chain_end
    plugins,       \* the heap of vst2_plugin_t objects, by address
    effects,       \* the native AEffect objects, by handle
    jack_ports,    \* the ports registered with the audio server
    fifos,         \* the ui_control_fifos initialised (lff_init) and not freed
    last,          \* history: the last call made on the control path
    call,          \* the chain operation the control path is executing
    pc,            \* the statement of call it executes next; 0 when in none
    walking,       \* the audio path is in a traversal of the chain
    cursor,        \* the plugin that traversal is visiting
    visited,       \* history: the plugins that traversal has visited
    before,        \* history: the chain order when call began
    overlap,       \* history: the calls that ran during that traversal, up to 2
    saved          \* history: the chain before a move that is to be undone

\* What the control path's whole calls and the lifecycle use.
cvars == <<jack_client, chain, chain_end, plugins, effects, jack_ports, fifos, last>>

\* What the statement-by-statement execution and the audio path add.
rtvars == <<call, pc, walking, cursor, visited, before, overlap>>

\* What the undoing of a move adds.
hvars == <<saved>>

vars == <<cvars, rtvars, hvars>>

\* holder->aux_ports where vst2_plugin_init_holder leaves it unset.
Unset == <<>>

\* Memory that holds no plugin (never allocated, or freed).
NoPlugin(mem) ==
    [mem |-> mem, desc |-> NoDesc, copies |-> 0, prev |-> NULL, next |-> NULL,
     holders |-> <<>>]

\* The state the chain operations read and write.
Rack == [chain |-> chain, chain_end |-> chain_end, plugins |-> plugins]

(***************************************************************************)
(* Pointer writes.                                                         *)
(***************************************************************************)
SetNext(R, n, v) == [R EXCEPT !.plugins[n].next = v]

SetPrev(R, n, v) == [R EXCEPT !.plugins[n].prev = v]

SetChain(R, v) == [R EXCEPT !.chain = v]

SetChainEnd(R, v) == [R EXCEPT !.chain_end = v]

\* Mutant of vst2_plugin_swap_aux_ports: the temporary is lost, so that other
\* receives plugin's aux_ports and plugin keeps its own.
SwapAuxPortsNoTmp(pl, plugin, other) ==
    [pl EXCEPT
       ![other].holders =
           [c \in DOMAIN @ |->
               IF c <= pl[plugin].copies
               THEN [@[c] EXCEPT !.aux_ports = pl[plugin].holders[c].aux_ports]
               ELSE @[c]]]

\* Mutant of vst2_plugin_swap_aux_ports: the arrays are swapped across the
\* copies, the first copy's with the last copy's.
SwapAuxPortsAcrossCopies(pl, plugin, other) ==
    [pl EXCEPT
       ![plugin].holders =
           [c \in DOMAIN @ |->
               [@[c] EXCEPT !.aux_ports =
                   pl[other].holders[pl[plugin].copies + 1 - c].aux_ports]],
       ![other].holders =
           [c \in DOMAIN @ |->
               [@[c] EXCEPT !.aux_ports =
                   pl[plugin].holders[pl[plugin].copies + 1 - c].aux_ports]]]

\* vst2_plugin_swap_aux_ports: exchange the aux_ports of the two plugins'
\* holders, copy by copy, over plugin->copies.
vst2_plugin_swap_aux_ports(pl, plugin, other) ==
    [pl EXCEPT
       ![plugin].holders =
           [c \in DOMAIN @ |->
               IF c <= pl[plugin].copies
               THEN [@[c] EXCEPT !.aux_ports = pl[other].holders[c].aux_ports]
               ELSE @[c]],
       ![other].holders =
           [c \in DOMAIN @ |->
               IF c <= pl[plugin].copies
               THEN [@[c] EXCEPT !.aux_ports = pl[plugin].holders[c].aux_ports]
               ELSE @[c]]]

\* Mutant of SwapDownstream: the loop ends after the first swap.
RECURSIVE SwapDownstreamFirstOnly(_, _, _, _)
SwapDownstreamFirstOnly(pl, plugin, other, fuel) ==
    IF other = NULL \/ fuel = 0
    THEN pl
    ELSE IF pl[other].desc.id = pl[plugin].desc.id
         THEN vst2_plugin_swap_aux_ports(pl, plugin, other)
         ELSE SwapDownstreamFirstOnly(pl, plugin, pl[other].next, fuel - 1)

\* The loop of remove and change: for (other = start; other; other = other->next)
\* swap with every other of the same descriptor id.  fuel bounds the walk.
RECURSIVE SwapDownstream(_, _, _, _)
SwapDownstream(pl, plugin, other, fuel) ==
    IF other = NULL \/ fuel = 0
    THEN pl
    ELSE LET pl2 == IF pl[other].desc.id = pl[plugin].desc.id
                    THEN vst2_plugin_swap_aux_ports(pl, plugin, other)
                    ELSE pl
         IN  SwapDownstream(pl2, plugin, pl2[other].next, fuel - 1)

\* The guard of every aux-port section: a jack client and aux channels.
AuxGuard(pl, plugin) == jack_client /\ pl[plugin].desc.aux_channels > 0

\* Mutant of SortOutAuxPorts: the walk starts at the head of the chain instead
\* of at plugin->next.
SortOutAuxPortsFromHead(R, plugin) ==
    IF AuxGuard(R.plugins, plugin)
    THEN [R EXCEPT !.plugins =
             SwapDownstream(R.plugins, plugin, R.chain, MaxNodes)]
    ELSE R

\* "sort out the aux ports" of remove and change.
SortOutAuxPorts(R, plugin) ==
    IF AuxGuard(R.plugins, plugin)
    THEN [R EXCEPT !.plugins =
             SwapDownstream(R.plugins, plugin, R.plugins[plugin].next, MaxNodes)]
    ELSE R

\* Mutant of AddStmt: the plugin is hung on the head's next instead of the
\* tail's.
AddStmtLinksHead(R, plugin, k) ==
    CASE k = 1 -> SetNext(R, plugin, NULL)
      [] k = 2 -> SetPrev(R, plugin, R.chain_end)
      [] k = 3 -> IF R.chain_end # NULL
                  THEN SetNext(R, R.chain, plugin)
                  ELSE SetChain(R, plugin)
      [] k = 4 -> SetChainEnd(R, plugin)

(***************************************************************************)
(* vst2_process_add_plugin, statement by statement.                        *)
(***************************************************************************)
AddStmt(R, plugin, k) ==
    CASE k = 1 -> SetNext(R, plugin, NULL)
      [] k = 2 -> SetPrev(R, plugin, R.chain_end)
      [] k = 3 -> IF R.chain_end # NULL
                  THEN SetNext(R, R.chain_end, plugin)
                  ELSE SetChain(R, plugin)
      [] k = 4 -> SetChainEnd(R, plugin)

\* Mutant of RemoveStmt: chain_end is not updated when the tail is removed.
RemoveStmtKeepsTail(R, plugin, k) ==
    LET p == R.plugins[plugin] IN
    CASE k = 1 -> IF p.prev # NULL
                  THEN SetNext(R, p.prev, p.next)
                  ELSE SetChain(R, p.next)
      [] k = 2 -> IF p.next # NULL
                  THEN SetPrev(R, p.next, p.prev)
                  ELSE R
      [] k = 3 -> SortOutAuxPorts(R, plugin)

\* Mutant of RemoveStmt: the removed plugin's next is cleared at the end.
RemoveStmtClearsNext(R, plugin, k) ==
    LET p == R.plugins[plugin] IN
    CASE k = 1 -> IF p.prev # NULL
                  THEN SetNext(R, p.prev, p.next)
                  ELSE SetChain(R, p.next)
      [] k = 2 -> IF p.next # NULL
                  THEN SetPrev(R, p.next, p.prev)
                  ELSE SetChainEnd(R, p.prev)
      [] k = 3 -> SetNext(SortOutAuxPorts(R, plugin), plugin, NULL)

(***************************************************************************)
(* vst2_process_remove_plugin, statement by statement.                     *)
(***************************************************************************)
RemoveStmt(R, plugin, k) ==
    LET p == R.plugins[plugin] IN
    CASE k = 1 -> IF p.prev # NULL
                  THEN SetNext(R, p.prev, p.next)
                  ELSE SetChain(R, p.next)
      [] k = 2 -> IF p.next # NULL
                  THEN SetPrev(R, p.next, p.prev)
                  ELSE SetChainEnd(R, p.prev)
      [] k = 3 -> SortOutAuxPorts(R, plugin)

\* Mutant of MoveLocals: p is read from plugin->next.
MoveLocalsMixedUp(R, plugin) ==
    LET p == R.plugins[plugin].next
        n == R.plugins[plugin].next
    IN  [pp |-> IF p # NULL THEN R.plugins[p].prev ELSE NULL,
         p  |-> p,
         n  |-> n,
         nn |-> IF n # NULL THEN R.plugins[n].next ELSE NULL]

(***************************************************************************)
(* vst2_process_move_plugin.  The locals { pp, p, plugin, n, nn } are read *)
(* before any write.                                                       *)
(***************************************************************************)
MoveLocals(R, plugin) ==
    LET p == R.plugins[plugin].prev
        n == R.plugins[plugin].next
    IN  [pp |-> IF p # NULL THEN R.plugins[p].prev ELSE NULL,
         p  |-> p,
         n  |-> n,
         nn |-> IF n # NULL THEN R.plugins[n].next ELSE NULL]

\* The early returns: up on a plugin with no prev, down on one with no next.
MoveReturnsEarly(L, up) == IF up THEN L.p = NULL ELSE L.n = NULL

\* other = up ? plugin->next : plugin->prev
MoveOther(pl, plugin, up) == IF up THEN pl[plugin].next ELSE pl[plugin].prev

\* Mutant of MoveAuxPorts: the ports are swapped when the plugin moves up only.
MoveAuxPortsOnlyUp(R, plugin, up) ==
    IF AuxGuard(R.plugins, plugin) /\ up
    THEN LET other == MoveOther(R.plugins, plugin, up) IN
         IF R.plugins[other].desc.id = R.plugins[plugin].desc.id
         THEN [R EXCEPT !.plugins = vst2_plugin_swap_aux_ports(@, plugin, other)]
         ELSE R
    ELSE R

\* "swap around the jack ports" at the end of move.
MoveAuxPorts(R, plugin, up) ==
    IF AuxGuard(R.plugins, plugin)
    THEN LET other == MoveOther(R.plugins, plugin, up) IN
         IF R.plugins[other].desc.id = R.plugins[plugin].desc.id
         THEN [R EXCEPT !.plugins = vst2_plugin_swap_aux_ports(@, plugin, other)]
         ELSE R
    ELSE R

MoveUpStmt(R, plugin, L, k) ==
    CASE k = 1 -> IF L.pp # NULL
                  THEN SetNext(R, L.pp, plugin)
                  ELSE SetChain(R, plugin)
      [] k = 2 -> SetNext(R, L.p, L.n)
      [] k = 3 -> SetPrev(R, L.p, plugin)
      [] k = 4 -> SetPrev(R, plugin, L.pp)
      [] k = 5 -> SetNext(R, plugin, L.p)
      [] k = 6 -> IF L.n # NULL
                  THEN SetPrev(R, L.n, L.p)
                  ELSE SetChainEnd(R, L.p)
      [] k = 7 -> MoveAuxPorts(R, plugin, TRUE)

\* Mutant of MoveDownStmt: procinfo->chain is not updated when the head moves
\* down.
MoveDownStmtKeepsHead(R, plugin, L, k) ==
    CASE k = 1 -> IF L.p # NULL
                  THEN SetNext(R, L.p, L.n)
                  ELSE R
      [] k = 2 -> SetPrev(R, L.n, L.p)
      [] k = 3 -> SetNext(R, L.n, plugin)
      [] k = 4 -> SetPrev(R, plugin, L.n)
      [] k = 5 -> SetNext(R, plugin, L.nn)
      [] k = 6 -> IF L.nn # NULL
                  THEN SetPrev(R, L.nn, plugin)
                  ELSE SetChainEnd(R, plugin)
      [] k = 7 -> MoveAuxPorts(R, plugin, FALSE)


MoveDownStmt(R, plugin, L, k) ==
    CASE k = 1 -> IF L.p # NULL
                  THEN SetNext(R, L.p, L.n)
                  ELSE SetChain(R, L.n)
      [] k = 2 -> SetPrev(R, L.n, L.p)
      [] k = 3 -> SetNext(R, L.n, plugin)
      [] k = 4 -> SetPrev(R, plugin, L.n)
      [] k = 5 -> SetNext(R, plugin, L.nn)
      [] k = 6 -> IF L.nn # NULL
                  THEN SetPrev(R, L.nn, plugin)
                  ELSE SetChainEnd(R, plugin)
      [] k = 7 -> MoveAuxPorts(R, plugin, FALSE)

\* Mutant of ChangeStmt: new_plugin->prev is set to plugin instead of
\* plugin->prev.
ChangeStmtPrevIsPlugin(R, plugin, new_plugin, k) ==
    LET p == R.plugins[plugin] IN
    CASE k = 1 -> SetNext(R, new_plugin, p.next)
      [] k = 2 -> SetPrev(R, new_plugin, plugin)
      [] k = 3 -> IF p.prev # NULL
                  THEN SetNext(R, p.prev, new_plugin)
                  ELSE SetChain(R, new_plugin)
      [] k = 4 -> IF p.next # NULL
                  THEN SetPrev(R, p.next, new_plugin)
                  ELSE SetChainEnd(R, new_plugin)
      [] k = 5 -> SortOutAuxPorts(R, plugin)

\* Mutant of ChangeStmt: the aux ports are sorted out from new_plugin on, so
\* that new_plugin takes part in the swaps.
ChangeStmtSwapsWithNew(R, plugin, new_plugin, k) ==
    LET p == R.plugins[plugin] IN
    CASE k = 1 -> SetNext(R, new_plugin, p.next)
      [] k = 2 -> SetPrev(R, new_plugin, p.prev)
      [] k = 3 -> IF p.prev # NULL
                  THEN SetNext(R, p.prev, new_plugin)
                  ELSE SetChain(R, new_plugin)
      [] k = 4 -> IF p.next # NULL
                  THEN SetPrev(R, p.next, new_plugin)
                  ELSE SetChainEnd(R, new_plugin)
      [] k = 5 -> IF AuxGuard(R.plugins, plugin)
                  THEN [R EXCEPT !.plugins =
                           SwapDownstream(R.plugins, plugin, new_plugin, MaxNodes)]
                  ELSE R

(***************************************************************************)
(* vst2_process_change_plugin, statement by statement.                     *)
(***************************************************************************)
ChangeStmt(R, plugin, new_plugin, k) ==
    LET p == R.plugins[plugin] IN
    CASE k = 1 -> SetNext(R, new_plugin, p.next)
      [] k = 2 -> SetPrev(R, new_plugin, p.prev)
      [] k = 3 -> IF p.prev # NULL
                  THEN SetNext(R, p.prev, new_plugin)
                  ELSE SetChain(R, new_plugin)
      [] k = 4 -> IF p.next # NULL
                  THEN SetPrev(R, p.next, new_plugin)
                  ELSE SetChainEnd(R, new_plugin)
      [] k = 5 -> SortOutAuxPorts(R, plugin)

(***************************************************************************)
(* A call of one of the four chain operations: its arguments and, for      *)
(* move, its locals.  Stmt is its k-th statement, NStmts the number of        *)
(* statements it executes, Exec the run of statements k..Len.              *)
(***************************************************************************)
NoLocals == [pp |-> NULL, p |-> NULL, n |-> NULL, nn |-> NULL]

Call(op, plugin, arg, R) ==
    [op |-> op, plugin |-> plugin, arg |-> arg,
     L |-> IF op = "move" THEN MoveLocals(R, plugin) ELSE NoLocals]

\* The control path is in no chain operation.
NoCallYet == [op |-> "none", plugin |-> NULL, arg |-> 0, L |-> NoLocals]

Up(c) == c.arg = 1

NStmts(c) ==
    CASE c.op = "add"    -> 4
      [] c.op = "remove" -> 3
      [] c.op = "move"   -> IF MoveReturnsEarly(c.L, Up(c)) THEN 0 ELSE 7
      [] c.op = "change" -> 5

Stmt(R, c, k) ==
    CASE c.op = "add"    -> AddStmt(R, c.plugin, k)
      [] c.op = "remove" -> RemoveStmt(R, c.plugin, k)
      [] c.op = "move"   -> IF Up(c) THEN MoveUpStmt(R, c.plugin, c.L, k)
                                     ELSE MoveDownStmt(R, c.plugin, c.L, k)
      [] c.op = "change" -> ChangeStmt(R, c.plugin, c.arg, k)

RECURSIVE Exec(_, _, _)
Exec(R, c, k) == IF k > NStmts(c) THEN R ELSE Exec(Stmt(R, c, k), c, k + 1)

(***************************************************************************)
(* Traversals, bounded so that a cycle shows as an over-long walk.         *)
(***************************************************************************)
RECURSIVE WalkNext(_, _, _)
WalkNext(pl, n, fuel) ==
    IF n = NULL \/ fuel = 0 THEN <<>>
    ELSE <<n>> \o WalkNext(pl, pl[n].next, fuel - 1)

RECURSIVE WalkPrev(_, _, _)
WalkPrev(pl, n, fuel) ==
    IF n = NULL \/ fuel = 0 THEN <<>>
    ELSE <<n>> \o WalkPrev(pl, pl[n].prev, fuel - 1)

Range(s) == { s[i] : i \in DOMAIN s }

\* head -> tail along next, and tail -> head along prev
Forward(R) == WalkNext(R.plugins, R.chain, MaxNodes + 1)

Backward(R) == WalkPrev(R.plugins, R.chain_end, MaxNodes + 1)

\* The plugins linked into the chain.
Linked(R) == Range(Forward(R))

(***************************************************************************)
(* The native effect (AEffect): its parameters and the setParameter calls  *)
(* made on it, each with the holder that made it.                          *)
(***************************************************************************)
ParamIdx == 0..(MaxPorts - 1)

NewEffect == [param |-> [i \in ParamIdx |-> 0]]

\* effect->setParameter(effect, index, value)
setParameter(e, index, value) ==
    [param |-> IF index \in ParamIdx THEN [e.param EXCEPT ![index] = value]
               ELSE e.param]

\* desc->control_port_indicies[i], i from 0
ControlPortIndex(d, i) == EffectPorts + i

\* vst2_plugin_desc_get_default_control_value (of the descriptor provider)
DefaultControlValue(d, port_index) == 10 * d.id + port_index

\* holder->control_memory as the first loop of vst2_plugin_init_holder fills it
\* (<<>> is the NULL of control_port_count = 0); entry i of C is entry i + 1 here.
ControlMemory(d) ==
    [i \in 1..d.control_port_count |->
        DefaultControlValue(d, ControlPortIndex(d, i - 1))]

\* The setParameter calls of the first loop of vst2_plugin_init_holder.
ControlCalls(d) ==
    [i \in 1..d.control_port_count |->
        [index |-> ControlPortIndex(d, i - 1) - EffectPorts,
         value |-> ControlMemory(d)[i]]]

\* The setParameter calls of its second loop, over status_port_count, which
\* runs when control_memory is not NULL and reads control_port_indicies[i] and
\* control_memory[i]; past control_port_count both reads are out of bounds
\* and yield g.
StatusCalls(d, g) ==
    IF d.control_port_count > 0
    THEN [i \in 1..d.status_port_count |->
            IF i <= d.control_port_count
            THEN [index |-> ControlPortIndex(d, i - 1) - EffectPorts,
                  value |-> ControlMemory(d)[i]]
            ELSE [index |-> g.index - EffectPorts, value |-> g.value]]
    ELSE <<>>

RECURSIVE ApplyCalls(_, _)
ApplyCalls(e, calls) ==
    IF calls = <<>> THEN e
    ELSE ApplyCalls(setParameter(e, Head(calls).index, Head(calls).value),
                    Tail(calls))

\* The aux_ports vst2_plugin_create_aux_ports leaves when every registration
\* succeeds: one registered port per aux channel.
CreateAuxPorts(plugin, copy, d) ==
    [ch \in 1..d.aux_channels |-> <<plugin, copy, ch>>]

\* The NULL jack_port_t *, among the handles <<plugin, copy, channel>>.
NullPort == <<NULL, NULL, NULL>>

\* jack_port_register for aux channel ch of a copy: the port's handle, or NULL
\* when the audio server refuses (g.fail holds the <<copy, channel>> refused).
jack_port_register(plugin, copy, ch, g) ==
    IF <<copy, ch>> \in g.fail THEN NullPort ELSE <<plugin, copy, ch>>

\* mlt_log_panic(NULL, "Could not register jack port ...; aborting"): a
\* message is logged and the call returns; the handle stays as registered.
mlt_log_panic(handle) == handle

\* vst2_plugin_create_aux_ports: the loop over the aux channels.
vst2_plugin_create_aux_ports(plugin, copy, d, g) ==
    [ch \in 1..d.aux_channels |->
        LET handle == jack_port_register(plugin, copy, ch, g) IN
        IF handle = NullPort THEN mlt_log_panic(handle) ELSE handle]

\* vst2_plugin_open_plugin: *effect_ptr = desc->effect, and 1 when it is NULL.
vst2_plugin_open_plugin(d) == IF d.effect = NULL THEN 1 ELSE 0

\* vst2_plugin_instantiate(desc->effect, ...): effects[i] = effect for every copy.
vst2_plugin_instantiate(d) == [i \in 1..d.copies |-> d.effect]

\* Mutant of InitHolder: the aux ports are created whether or not there is a
\* jack client.
InitHolderAlwaysAux(plugin, copy, effect, d, g) ==
    [effect         |-> effect,
     control_memory |-> ControlMemory(d),
     calls          |-> ControlCalls(d) \o StatusCalls(d, g),
     aux_ports      |-> IF d.aux_channels > 0
                        THEN vst2_plugin_create_aux_ports(plugin, copy, d, g)
                        ELSE Unset]

\* vst2_plugin_init_holder: the holder it fills out.
\* calls is history: the setParameter calls made while filling it out.
InitHolder(plugin, copy, effect, d, g) ==
    [effect         |-> effect,
     control_memory |-> ControlMemory(d),
     calls          |-> ControlCalls(d) \o StatusCalls(d, g),
     aux_ports      |-> IF jack_client /\ d.aux_channels > 0
                        THEN vst2_plugin_create_aux_ports(plugin, copy, d, g)
                        ELSE Unset]

\* vst2_plugin_init_holder: what it does to the holder's effect.
InitHolderEffect(e, d, g) ==
    ApplyCalls(e, ControlCalls(d) \o StatusCalls(d, g))

\* The loop of vst2_plugin_new over the copies, on the effects.
RECURSIVE InitHoldersEffects(_, _, _, _, _)
InitHoldersEffects(es, copy, effs, d, g) ==
    IF copy > d.copies THEN es
    ELSE InitHoldersEffects(
            [es EXCEPT ![effs[copy]] = InitHolderEffect(@, d, g)],
            copy + 1, effs, d, g)

\* The plugin vst2_plugin_new returns.
NewPlugin(plugin, d, g) ==
    LET effs == vst2_plugin_instantiate(d) IN
    [mem |-> "live", desc |-> d, copies |-> d.copies, prev |-> NULL, next |-> NULL,
     holders |-> [c \in 1..d.copies |-> InitHolder(plugin, c, effs[c], d, g)]]

\* The ui_control_fifos of a plugin's holders: one per copy and control port,
\* as vst2_plugin_init_holder initialises and vst2_plugin_destroy frees them.
FifosOf(plugin, d) ==
    { <<plugin, c, j>> : c \in 1..d.copies, j \in 1..d.control_port_count }

\* The ports a plugin's holders hold.
PortsOf(p) ==
    UNION { Range(p.holders[c].aux_ports) : c \in DOMAIN p.holders }

Live == { n \in Nodes : plugins[n].mem = "live" }

\* The plugins outside the chain: created and not yet added, or displaced and
\* not yet destroyed.  The control path holds at most one at a time: it adds a
\* plugin after creating it and disposes of a plugin after displacing it.
Unlinked == Live \ Linked(Rack)

Free == { n \in Nodes : plugins[n].mem = "free" }

\* The address the allocator hands out next.
NextFree == CHOOSE n \in Free : \A m \in Free : n <= m

(***************************************************************************)
(* The control path's calls.                                               *)
(***************************************************************************)
NoCall == [op |-> "none", plugin |-> NULL, arg |-> 0, early |-> FALSE, ret |-> NULL]

Returned(op, plugin, ret) ==
    [op |-> op, plugin |-> plugin, arg |-> 0, early |-> FALSE, ret |-> ret]

\* What the call returns: remove and change return the plugin they displaced.
Ret(c) == IF c.op \in {"remove", "change"} THEN c.plugin ELSE NULL

\* The process has not crashed.
Running == last.op # "crashed"

Do(c) ==
    LET R2 == Exec(Rack, c, 1) IN
    /\ Running
    /\ chain' = R2.chain
    /\ chain_end' = R2.chain_end
    /\ plugins' = R2.plugins
    /\ last' = [op |-> c.op, plugin |-> c.plugin, arg |-> c.arg,
                early |-> NStmts(c) = 0, ret |-> Ret(c)]
    /\ UNCHANGED <<jack_client, effects, jack_ports, fifos>>
    /\ UNCHANGED rtvars

\* Mutant of New: when the plugin cannot be opened the plugin and its holders
\* are created all the same, and NULL is returned.
NewLeaksOnFailure(d, g) ==
    /\ Running
    /\ Free # {}
    /\ Unlinked = {}
    /\ LET plugin == NextFree
           effs == [i \in 1..d.copies |-> d.id]
       IN  /\ plugins' = [plugins EXCEPT ![plugin] = NewPlugin(plugin, d, g)]
           /\ effects' = IF vst2_plugin_open_plugin(d) # 0
                         THEN effects
                         ELSE InitHoldersEffects(effects, 1, effs, d, g)
           /\ jack_ports' = jack_ports \cup (PortsOf(NewPlugin(plugin, d, g)) \ {NullPort})
           /\ fifos' = fifos \cup FifosOf(plugin, d)
           /\ last' = IF vst2_plugin_open_plugin(d) # 0
                      THEN Returned("new", NULL, NULL)
                      ELSE Returned("new", plugin, plugin)
    /\ UNCHANGED <<jack_client, chain, chain_end>>
    /\ UNCHANGED <<rtvars, hvars>>

\* vst2_plugin_new(desc, vst2_context); g is what the environment yields: the
\* values read out of bounds and the port registrations refused.
\* It returns NULL, having done nothing, when the plugin cannot be opened.
New(d, g) ==
    /\ Running
    /\ Free # {}
    /\ Unlinked = {}
    /\ IF vst2_plugin_open_plugin(d) # 0
       THEN /\ last' = Returned("new", NULL, NULL)
            /\ UNCHANGED <<plugins, effects, jack_ports, fifos>>
       ELSE LET plugin == NextFree
                effs == vst2_plugin_instantiate(d)
            IN  /\ plugins' = [plugins EXCEPT ![plugin] = NewPlugin(plugin, d, g)]
                /\ effects' = InitHoldersEffects(effects, 1, effs, d, g)
                /\ jack_ports' = jack_ports \cup (PortsOf(NewPlugin(plugin, d, g)) \ {NullPort})
                /\ fifos' = fifos \cup FifosOf(plugin, d)
                /\ last' = Returned("new", plugin, plugin)
    /\ UNCHANGED <<jack_client, chain, chain_end>>
    /\ UNCHANGED <<rtvars, hvars>>

\* History of a vst2_plugin_destroy call in which the process crashed.
Crashed(plugin) ==
    [op |-> "crashed", plugin |-> plugin, arg |-> 0, early |-> FALSE, ret |-> NULL]

\* History of a vst2_plugin_destroy call; arg is 1 when the call before it was
\* the vst2_process_remove_plugin that returned the plugin.
Destroyed(plugin) ==
    [op |-> "destroy", plugin |-> plugin,
     arg |-> IF last.op = "remove" /\ last.plugin = plugin THEN 1 ELSE 0,
     early |-> FALSE, ret |-> NULL]

\* Mutant of Destroy: it unregisters the ports the plugin was created with,
\* not those its holders hold now.
DestroyCreatedPorts(plugin) ==
    /\ Running
    /\ plugin \in Unlinked
    /\ jack_ports' = IF AuxGuard(plugins, plugin)
                     THEN jack_ports \ UNION { Range(CreateAuxPorts(plugin, c, plugins[plugin].desc)) :
                                               c \in 1..plugins[plugin].copies }
                     ELSE jack_ports
    /\ fifos' = fifos \ FifosOf(plugin, plugins[plugin].desc)
    /\ \/ /\ plugins' = [plugins EXCEPT ![plugin] = NoPlugin("freed")]
          /\ last' = Destroyed(plugin)
       \/ /\ plugins' = [plugins EXCEPT ![plugin] = NoPlugin("torn")]
          /\ last' = Crashed(plugin)
    /\ UNCHANGED <<jack_client, chain, chain_end, effects>>
    /\ UNCHANGED <<rtvars, hvars>>

\* vst2_plugin_destroy(plugin), of a plugin that is not in the chain.  Its
\* dlclose(plugin->dl_handle) reads a handle that vst2_plugin_new copied from
\* an uninitialised local (vst2_plugin_open_plugin never stores one): the call
\* returns, and the plugin is freed, or the process crashes in it, the
\* holders destroyed and the plugin's memory ("torn") not freed.
Destroy(plugin) ==
    /\ Running
    /\ plugin \in Unlinked
    /\ jack_ports' = IF AuxGuard(plugins, plugin)
                     THEN jack_ports \ PortsOf(plugins[plugin])
                     ELSE jack_ports
    /\ fifos' = fifos \ FifosOf(plugin, plugins[plugin].desc)
    /\ \/ /\ plugins' = [plugins EXCEPT ![plugin] = NoPlugin("freed")]
          /\ last' = Destroyed(plugin)
       \/ /\ plugins' = [plugins EXCEPT ![plugin] = NoPlugin("torn")]
          /\ last' = Crashed(plugin)
    /\ UNCHANGED <<jack_client, chain, chain_end, effects>>
    /\ UNCHANGED <<rtvars, hvars>>

\* vst2_process_add_plugin(procinfo, plugin), of a plugin not in the chain.
Add(plugin) ==
    /\ plugin \in Unlinked
    /\ Do(Call("add", plugin, 0, Rack))
    /\ UNCHANGED hvars

\* vst2_process_remove_plugin(procinfo, plugin), of a plugin in the chain.
Remove(plugin) ==
    /\ plugin \in Linked(Rack)
    /\ Unlinked = {}
    /\ Do(Call("remove", plugin, 0, Rack))
    /\ UNCHANGED hvars

\* vst2_process_move_plugin(procinfo, plugin, up), of a plugin in the chain.
Move(plugin, up) ==
    /\ plugin \in Linked(Rack)
    /\ Do(Call("move", plugin, up, Rack))
    /\ UNCHANGED hvars

\* vst2_process_change_plugin(procinfo, plugin, new_plugin): plugin is in the
\* chain and new_plugin is not.
Change(plugin, new_plugin) ==
    /\ plugin \in Linked(Rack)
    /\ new_plugin \in Unlinked
    /\ Do(Call("change", plugin, new_plugin, Rack))
    /\ UNCHANGED hvars

\* Nothing is read out of bounds with the descriptors of the rack, and the
\* audio server registers every port.
NoGarbage == [index |-> 0, value |-> 0, fail |-> {}]

\* The control path creates the next plugin of the rack.
Create == Free # {} /\ New(DescFor(NextFree), NoGarbage)

\* No move is to be undone.
NoSaved ==
    [rack |-> [chain |-> NULL, chain_end |-> NULL,
               plugins |-> [n \in Nodes |-> NoPlugin("free")]],
     plugin |-> NULL, up |-> 0, pending |-> FALSE]

\* The state after vst2_process_info and the descriptors descs are set up:
\* an empty chain and no plugin.
InitOver(descs) ==
    /\ jack_client \in BOOLEAN
    /\ chain = NULL
    /\ chain_end = NULL
    /\ plugins = [n \in Nodes |-> NoPlugin("free")]
    /\ effects = [e \in { d.effect : d \in descs } \ {NULL} |-> NewEffect]
    /\ jack_ports = {}
    /\ fifos = {}
    /\ last = NoCall
    /\ call = NoCallYet
    /\ pc = 0
    /\ walking = FALSE
    /\ cursor = NULL
    /\ visited = <<>>
    /\ before = <<>>
    /\ overlap = 0
    /\ saved = NoSaved

Init == InitOver(ChainDescs)

Next ==
    \/ Create
    \/ \E plugin \in Nodes : Add(plugin)
    \/ \E plugin \in Nodes : Remove(plugin)
    \/ \E plugin \in Nodes, up \in {0, 1} : Move(plugin, up)
    \/ \E plugin \in Nodes, new_plugin \in Nodes : Change(plugin, new_plugin)

Spec == Init /\ [][Next]_vars

\* The chain operations together with the destruction of displaced plugins.
NextLife ==
    \/ Next
    \/ \E plugin \in Nodes : Destroy(plugin)

SpecLife == Init /\ [][NextLife]_vars

(***************************************************************************)
(* The control path moving a plugin and moving it back at once.            *)
(***************************************************************************)
\* vst2_process_move_plugin(procinfo, plugin, up) of a plugin that has a
\* neighbour on that side, which the control path is to undo next.
MoveThere(plugin, up) ==
    /\ ~saved.pending
    /\ plugin \in Linked(Rack)
    /\ (IF up = 1 THEN plugins[plugin].prev ELSE plugins[plugin].next) # NULL
    /\ Do(Call("move", plugin, up, Rack))
    /\ saved' = [rack |-> Rack, plugin |-> plugin, up |-> up, pending |-> TRUE]

\* vst2_process_move_plugin(procinfo, plugin, !up): the move is undone.
MoveBack ==
    /\ saved.pending
    /\ Do(Call("move", saved.plugin, 1 - saved.up, Rack))
    /\ saved' = [NoSaved EXCEPT !.plugin = saved.plugin, !.up = saved.up]

NextMove ==
    \/ ~saved.pending /\ Create
    \/ ~saved.pending /\ \E plugin \in Nodes : Add(plugin)
    \/ ~saved.pending /\ \E plugin \in Nodes : Remove(plugin)
    \/ ~saved.pending /\ \E plugin \in Nodes, new_plugin \in Nodes : Change(plugin, new_plugin)
    \/ \E plugin \in Nodes, up \in {0, 1} : MoveThere(plugin, up)
    \/ MoveBack

SpecMove == Init /\ [][NextMove]_vars

(***************************************************************************)
(* Plugin creation over every shape of descriptor: each creation followed  *)
(* by the plugin's addition to the chain.                                  *)
(***************************************************************************)
\* Number of plugins created from the descriptors of every shape.
MaxNew == 3

\* One descriptor for each control_port_count, status_port_count and copies,
\* with an aux channel when it has two copies, and one that cannot be loaded.
NewDescs ==
    { MkDesc(1 + ctl + (MaxPorts + 1) * sta + (MaxPorts + 1) * (MaxPorts + 1) * (copies - 1),
             copies - 1, copies, ctl, sta) :
        ctl \in 0..MaxPorts, sta \in 0..MaxPorts, copies \in 1..2 }
    \cup { [MkDesc(2 * (MaxPorts + 1) * (MaxPorts + 1) + 1, 0, 1, 1, 0) EXCEPT !.effect = NULL] }

\* What the reads past the end of control_port_indicies and control_memory
\* may yield: a port index of a parameter or of none, and any value; and the
\* registrations the audio server refuses: none, or that of the first aux
\* channel of the first copy.
Garbage ==
    { [index |-> i, value |-> v, fail |-> f] :
        i \in {EffectPorts, EffectPorts + MaxPorts}, v \in {0, 7}, f \in {{}, {<<1, 1>>}} }

\* The control path creates a plugin from any descriptor.
CreateAny ==
    /\ Cardinality(Live) < MaxNew
    /\ \E d \in NewDescs, g \in Garbage : New(d, g)

NextNew ==
    \/ CreateAny
    \/ \E plugin \in Nodes : Add(plugin)

InitNew == InitOver(NewDescs)

SpecNew == InitNew /\ [][NextNew]_vars

(***************************************************************************)
(* The control path executing a chain operation one statement at a time,   *)
(* each statement one atomic pointer write (the aux-port section is one    *)
(* statement), while the audio path walks the chain from procinfo->chain   *)
(* along next.                                                             *)
(***************************************************************************)
\* The caller's contract of each chain operation, as in Add, Remove, Move, Change.
MayCall(op, plugin, arg) ==
    CASE op = "add"    -> plugin \in Unlinked
      [] op = "remove" -> plugin \in Linked(Rack) /\ Unlinked = {}
      [] op = "move"   -> plugin \in Linked(Rack) /\ arg \in {0, 1}
      [] op = "change" -> plugin \in Linked(Rack) /\ arg \in Unlinked

\* The control path enters a chain operation (one that returns at once is no
\* step).  The history of a traversal is dropped when a second call runs
\* during it.
Begin(op, plugin, arg) ==
    /\ pc = 0
    /\ MayCall(op, plugin, arg)
    /\ NStmts(Call(op, plugin, arg, Rack)) > 0
    /\ call' = Call(op, plugin, arg, Rack)
    /\ pc' = 1
    /\ before' = Forward(Rack)
    /\ overlap' = IF walking /\ overlap < 2 THEN overlap + 1 ELSE overlap
    /\ visited' = IF walking /\ overlap >= 1 THEN <<>> ELSE visited
    /\ UNCHANGED <<cvars, hvars, walking, cursor>>

\* The control path executes the next statement of the operation it is in;
\* after the last one it is in no operation.
Step ==
    /\ pc >= 1
    /\ LET R2 == Stmt(Rack, call, pc) IN
       /\ chain' = R2.chain
       /\ chain_end' = R2.chain_end
       /\ plugins' = R2.plugins
    /\ pc' = IF pc = NStmts(call) THEN 0 ELSE pc + 1
    /\ call' = IF pc = NStmts(call) THEN NoCallYet ELSE call
    /\ before' = IF pc = NStmts(call) /\ ~(walking /\ overlap = 1) THEN <<>> ELSE before
    /\ UNCHANGED <<jack_client, effects, jack_ports, fifos, last>>
    /\ UNCHANGED <<walking, cursor, visited, overlap, hvars>>

\* The control path creates a plugin between two chain operations.
CreateBetween == pc = 0 /\ Create

\* The audio path starts a block: it reads procinfo->chain.
AudioStart ==
    /\ ~walking
    /\ walking' = TRUE
    /\ cursor' = chain
    /\ visited' = IF chain # NULL THEN <<chain>> ELSE <<>>
    /\ overlap' = IF pc >= 1 THEN 1 ELSE 0
    /\ UNCHANGED <<cvars, hvars, call, pc, before>>

\* The audio path leaves the plugin it is visiting: it reads its next.  A walk
\* that has gone round a cycle is cut after MaxNodes + 1 visits.
AudioStep ==
    /\ walking
    /\ cursor # NULL
    /\ Len(visited) <= MaxNodes
    /\ cursor' = plugins[cursor].next
    /\ visited' = IF plugins[cursor].next # NULL /\ overlap < 2
                  THEN Append(visited, plugins[cursor].next)
                  ELSE visited
    /\ UNCHANGED <<cvars, hvars, call, pc, walking, before, overlap>>

\* The audio path has reached NULL: the block ends.
AudioEnd ==
    /\ walking
    /\ cursor = NULL
    /\ walking' = FALSE
    /\ visited' = <<>>
    /\ overlap' = 0
    /\ before' = IF pc = 0 THEN <<>> ELSE before
    /\ UNCHANGED <<cvars, hvars, call, pc, cursor>>

NextRT ==
    \/ CreateBetween
    \/ \E plugin \in Nodes : Begin("add", plugin, 0)
    \/ \E plugin \in Nodes : Begin("remove", plugin, 0)
    \/ \E plugin \in Nodes, up \in {0, 1} : Begin("move", plugin, up)
    \/ \E plugin \in Nodes, new_plugin \in Nodes : Begin("change", plugin, new_plugin)
    \/ Step
    \/ AudioStart
    \/ AudioStep
    \/ AudioEnd

InitRT == Init /\ ~jack_client

SpecRT == InitRT /\ [][NextRT]_vars

(***************************************************************************)
(* Properties of the chain operations.                                     *)
(***************************************************************************)
Reverse(s) == [i \in 1..Len(s) |-> s[Len(s) + 1 - i]]

Injective(s) == \A i, j \in DOMAIN s : s[i] = s[j] => i = j

\* The aux_ports of a plugin's holders, copy by copy.
AuxOf(pl, n) == [c \in DOMAIN pl[n].holders |-> pl[n].holders[c].aux_ports]

\* The state after the step, as the chain operations see it.
RackAfter == [chain |-> chain', chain_end |-> chain_end', plugins |-> plugins']

\* C1. Chain consistency: after any sequence of add / remove / move / change
\* calls, the walk from chain along next and the walk from chain_end along
\* prev visit the same plugins, each once, in opposite orders; next and prev
\* of linked plugins mirror each other; chain->prev and chain_end->next are
\* NULL; an added plugin is in the chain and a displaced one is not.
ChainConsistency ==
    LET f == Forward(Rack)
        b == Backward(Rack)
    IN  /\ Len(f) <= MaxNodes
        /\ Injective(f)
        /\ b = Reverse(f)
        /\ \A n \in Range(f) :
              /\ plugins[n].mem = "live"
              /\ plugins[n].next # NULL => plugins[plugins[n].next].prev = n
              /\ plugins[n].prev # NULL => plugins[plugins[n].prev].next = n
        /\ (chain = NULL) <=> (chain_end = NULL)
        /\ chain # NULL => plugins[chain].prev = NULL
        /\ chain_end # NULL => plugins[chain_end].next = NULL
        /\ last.op \in {"add", "move"} => last.plugin \in Range(f)
        /\ last.op = "change" => last.arg \in Range(f)
        /\ last.op \in {"remove", "change"} => last.plugin \notin Range(f)

\* C1 witness: a chain of at least three plugins one of which has just been
\* exchanged for another.
ChainConsistencyWitness ==
    /\ last.op = "change"
    /\ Len(Forward(Rack)) >= 3

\* C2. Move boundary no-op: a move up of the head plugin and a move down of the
\* tail plugin leave chain, chain_end and every plugin (its links and its
\* holders' aux_ports) as they were.
MoveBoundaryNoOp ==
    [][ ( /\ last'.op = "move"
          /\ \/ last'.arg = 1 /\ chain = last'.plugin
             \/ last'.arg = 0 /\ chain_end = last'.plugin )
        => ( /\ chain' = chain
             /\ chain_end' = chain_end
             /\ plugins' = plugins ) ]_vars

\* C2 witness: a move that returned early on a chain of several plugins.
MoveBoundaryWitness ==
    /\ last.op = "move"
    /\ last.early
    /\ Len(Forward(Rack)) >= 2

\* C3. Replace preserves position: change(B, D) with B linked between A and C
\* (either may be NULL) and D unlinked puts D exactly where B was, leaves every
\* other plugin where it was and returns B.
ReplacePreservesPosition ==
    [][ last'.op = "change" =>
        LET B == last'.plugin
            D == last'.arg
            A == plugins[B].prev
            C == plugins[B].next
            f == Forward(Rack)
        IN  /\ IF A # NULL THEN plugins'[A].next = D /\ chain' = chain
                           ELSE chain' = D
            /\ plugins'[D].prev = A
            /\ plugins'[D].next = C
            /\ IF C # NULL THEN plugins'[C].prev = D /\ chain_end' = chain_end
                           ELSE chain_end' = D
            /\ Forward(RackAfter) = [i \in DOMAIN f |-> IF f[i] = B THEN D ELSE f[i]]
            /\ Backward(RackAfter) = Reverse(Forward(RackAfter))
            /\ \A m \in Nodes \ {D} :
                  /\ m # A => plugins'[m].next = plugins[m].next
                  /\ m # C => plugins'[m].prev = plugins[m].prev
            /\ last'.ret = B ]_vars

\* C3 witness: a plugin has been exchanged in the middle of the chain.
ReplaceWitness ==
    /\ last.op = "change"
    /\ plugins[last.arg].prev # NULL
    /\ plugins[last.arg].next # NULL
    /\ Len(Forward(Rack)) >= 3

\* C4. Aux-port identity swap on move: when a jack client is active and the
\* moved plugin X and the neighbour Y it is moved past have the same
\* descriptor id, with aux channels, X ends with the aux_ports Y had and Y with
\* those X had, copy by copy, and no other holder changes; otherwise no
\* holder's aux_ports change.
AuxSwapOnMove ==
    [][ (last'.op = "move" /\ ~last'.early) =>
        LET X == last'.plugin
            Y == IF last'.arg = 1 THEN plugins[X].prev ELSE plugins[X].next
        IN  IF /\ jack_client
               /\ plugins[X].desc.id = plugins[Y].desc.id
               /\ plugins[X].desc.aux_channels > 0
            THEN /\ AuxOf(plugins', X) = AuxOf(plugins, Y)
                 /\ AuxOf(plugins', Y) = AuxOf(plugins, X)
                 /\ \A m \in Nodes \ {X, Y} : plugins'[m].holders = plugins[m].holders
            ELSE \A m \in Nodes : plugins'[m].holders = plugins[m].holders ]_vars

\* C4 witness: under a jack client, a plugin has been moved past a neighbour
\* of its own descriptor id and holds ports that were registered for another
\* plugin.
AuxSwapWitness ==
    /\ last.op = "move"
    /\ ~last.early
    /\ jack_client
    /\ LET X == last.plugin
           Y == IF last.arg = 1 THEN plugins[X].next ELSE plugins[X].prev
       IN  /\ plugins[X].desc.id = plugins[Y].desc.id
           /\ plugins[X].desc.aux_channels > 0
           /\ \A c \in DOMAIN plugins[X].holders :
                 plugins[X].holders[c].aux_ports[1][1] # X

\* The plugins downstream of plugin that have its descriptor id, in chain order.
SameIdDownstream(pl, plugin) ==
    SelectSeq(WalkNext(pl, pl[plugin].next, MaxNodes),
              LAMBDA m : pl[m].desc.id = pl[plugin].desc.id)

\* C5 as stated: after remove under a jack client, of a plugin with aux
\* channels, every downstream plugin of the same descriptor id holds the
\* aux_ports the removed plugin held before the call.
AuxHandoffToEveryDownstream ==
    [][ ( /\ last'.op = "remove"
          /\ jack_client
          /\ plugins[last'.plugin].desc.aux_channels > 0 )
        => \A m \in Range(SameIdDownstream(plugins, last'.plugin)) :
               AuxOf(plugins', m) = AuxOf(plugins, last'.plugin) ]_vars

\* C5 as amended: the first downstream plugin of the same descriptor id holds
\* the aux_ports the removed plugin held before the call, and every later one
\* holds those the same-id plugin before it held before the call.
AuxHandoffOnRemove ==
    [][ ( /\ last'.op = "remove"
          /\ jack_client
          /\ plugins[last'.plugin].desc.aux_channels > 0 )
        => LET S == SameIdDownstream(plugins, last'.plugin) IN
           \A i \in DOMAIN S :
               AuxOf(plugins', S[i]) =
                   AuxOf(plugins, IF i = 1 THEN last'.plugin ELSE S[i - 1]) ]_vars

\* C5 witness: under a jack client a plugin with aux channels has been removed
\* from in front of two plugins of its descriptor id.
AuxHandoffWitness ==
    /\ last.op = "remove"
    /\ jack_client
    /\ plugins[last.plugin].desc.aux_channels > 0
    /\ Len(SameIdDownstream(plugins, last.plugin)) >= 2

(***************************************************************************)
(* Properties of the statement-by-statement execution under a concurrent   *)
(* traversal.                                                              *)
(***************************************************************************)
\* C6 as stated: in every state between two pointer writes of add, remove,
\* move and change, the walk from procinfo->chain along next reaches NULL: the
\* next links reachable from the head form no cycle.
TraversableAtEveryStep ==
    Len(WalkNext(plugins, chain, MaxNodes + 1)) <= MaxNodes

\* The chain order once the operation in progress has run to its end.
OrderAfter ==
    IF pc >= 1 THEN Forward(Exec(Rack, call, pc)) ELSE Forward(Rack)

\* The chain order before the one operation that ran during the traversal.
OrderBefore == IF overlap = 1 THEN before ELSE Forward(Rack)

\* C7 as stated: a traversal from procinfo->chain along next that ran alongside
\* the pointer writes of at most one chain operation has visited the plugins
\* of the chain order before that operation or of the order after it, none
\* twice and none skipped.
AudioSeesBeforeOrAfter ==
    (walking /\ overlap <= 1) =>
        /\ Injective(visited)
        /\ cursor = NULL => (visited = OrderBefore \/ visited = OrderAfter)

PushesOf(h, d, i) ==
    { k \in DOMAIN h.calls : h.calls[k].index = ControlPortIndex(d, i) - EffectPorts }

\* C9 as stated: for every holder of every created plugin, linked or not, and
\* every control port, control_memory holds the descriptor's default for the
\* port and that default was pushed with setParameter exactly once.
DefaultsSeededOnce ==
    \A n \in Live : \A c \in DOMAIN plugins[n].holders :
        LET h == plugins[n].holders[c]
            d == plugins[n].desc
        IN  \A i \in 0..(d.control_port_count - 1) :
                /\ h.control_memory[i + 1] = DefaultControlValue(d, ControlPortIndex(d, i))
                /\ Cardinality(PushesOf(h, d, i)) = 1
                /\ \A k \in PushesOf(h, d, i) :
                       h.calls[k].value = DefaultControlValue(d, ControlPortIndex(d, i))

\* The holders of the created plugins, each as <<plugin, copy>>.
Holders == UNION { { <<n, c>> : c \in DOMAIN plugins[n].holders } : n \in Live }

\* C10 as stated: no native effect instance is referenced by two holders, be
\* they two copies of one plugin or holders of two plugins of one descriptor.
OneInstancePerHolder ==
    \A x, y \in Holders :
        x # y => plugins[x[1]].holders[x[2]].effect # plugins[y[1]].holders[y[2]].effect

RemoveDestroyRoundTrip ==
    [][ (last.op = "remove" /\ last'.op \in {"destroy", "crashed"}
            /\ last'.plugin = last.plugin) =>
        LET plugin == last.plugin IN
        /\ fifos' \cap FifosOf(plugin, plugins[plugin].desc) = {}
        /\ jack_ports' \cap PortsOf(plugins[plugin]) = {}
        /\ ChainConsistency'
        /\ Forward(RackAfter) = Forward(Rack)
        /\ \A n \in Linked(RackAfter) :
              /\ plugins'[n] = plugins[n]
              /\ PortsOf(plugins'[n]) \subseteq jack_ports' ]_vars

\* C12 witness: under a jack client a plugin was removed from a chain of
\* three, leaving two plugins of one descriptor id with control ports and aux
\* ports, one of which took over the ports it was created with, and has then
\* been destroyed.
RemoveDestroyWitness ==
    /\ last.op = "destroy"
    /\ last.arg = 1
    /\ jack_client
    /\ plugins[last.plugin].mem = "freed"
    /\ Len(Forward(Rack)) = 2
    /\ \A n \in Linked(Rack) :
          /\ plugins[n].desc.aux_channels > 0
          /\ plugins[n].desc.control_port_count > 0
          /\ plugins[n].desc.id = plugins[chain].desc.id
    /\ \E n \in Linked(Rack) :
          Range(CreateAuxPorts(last.plugin, 1, plugins[n].desc)) \subseteq PortsOf(plugins[n])

(***************************************************************************)
(* Properties of the failures of plugin creation.                          *)
(***************************************************************************)
\* C13 as stated: a failed port registration ends the process where it
\* happens, so no plugin that vst2_plugin_new has returned has a holder with
\* a NULL aux port handle.
NoFailedPortHandle ==
    \A n \in Live : \A c \in DOMAIN plugins[n].holders :
        NullPort \notin Range(plugins[n].holders[c].aux_ports)

IndexOf(s, n) ==
    IF \E i \in DOMAIN s : s[i] = n THEN CHOOSE i \in DOMAIN s : s[i] = n ELSE 0

\* s with the element at position i deleted.
SeqDelete(s, i) ==
    [j \in 1..(Len(s) - 1) |-> IF j < i THEN s[j] ELSE s[j + 1]]

\* s with the elements at positions i and j exchanged.
SeqExchange(s, i, j) ==
    [m \in 1..Len(s) |-> IF m = i THEN s[j] ELSE IF m = j THEN s[i] ELSE s[m]]

\* What the call c does to the sequence s of the chain's plugins.
SeqAfter(s, c) ==
    LET i == IndexOf(s, c.plugin) IN
    CASE c.op = "add"    -> Append(s, c.plugin)
      [] c.op = "remove" -> SeqDelete(s, i)
      [] c.op = "move"   -> IF c.arg = 1
                            THEN IF i > 1 THEN SeqExchange(s, i, i - 1) ELSE s
                            ELSE IF i < Len(s) THEN SeqExchange(s, i, i + 1) ELSE s
      [] c.op = "change" -> [s EXCEPT ![i] = c.arg]

\* C15. The chain refines a sequence: if head -> tail along next is s before
\* add, remove, move or change, it is afterwards s with the plugin appended,
\* deleted, exchanged with its predecessor (up) or successor (down), or
\* substituted; and tail -> head along prev is the reverse of it.
ChainRefinesSequence ==
    [][ last'.op \in {"add", "remove", "move", "change"} =>
        /\ Forward(RackAfter) = SeqAfter(Forward(Rack), last')
        /\ Backward(RackAfter) = Reverse(SeqAfter(Forward(Rack), last')) ]_vars

\* C15 witness: a plugin in the middle of a chain of three or more has moved
\* down.
ChainRefinesWitness ==
    /\ last.op = "move"
    /\ last.arg = 0
    /\ ~last.early
    /\ Len(Forward(Rack)) >= 3
    /\ IndexOf(Forward(Rack), last.plugin) \in 3..Len(Forward(Rack))

(***************************************************************************)
(* Relations between the chain operations.                                 *)
(***************************************************************************)
\* The plugins as vst2_process_remove_plugin(procinfo, plugin) would leave
\* them, called in the current state.
PluginsIfRemoved(plugin) ==
    Exec(Rack, Call("remove", plugin, 0, Rack), 1).plugins

\* C16. change(plugin, new_plugin) applies the aux port rule of remove: the
\* aux_ports every plugin other than new_plugin holds afterwards, the
\* displaced plugin and those downstream of it among them, are those
\* remove(plugin) would have left from the same chain, and new_plugin keeps
\* its own.
ChangeSwapsAsRemove ==
    [][ last'.op = "change" =>
        /\ \A n \in Live \ {last'.arg} :
              AuxOf(plugins', n) = AuxOf(PluginsIfRemoved(last'.plugin), n)
        /\ AuxOf(plugins', last'.arg) = AuxOf(plugins, last'.arg) ]_vars

\* C16 witness: under a jack client a plugin with aux channels has been
\* replaced by one of its descriptor id in front of another of that id, which
\* has taken over its ports.
ChangeSwapsWitness ==
    /\ last.op = "change"
    /\ jack_client
    /\ plugins[last.plugin].desc.aux_channels > 0
    /\ plugins[last.arg].desc.id = plugins[last.plugin].desc.id
    /\ \E m \in Linked(Rack) \ {last.arg} :
          /\ plugins[m].desc.id = plugins[last.plugin].desc.id
          /\ AuxOf(plugins, m) = [c \in 1..plugins[m].copies |-> CreateAuxPorts(last.plugin, c, plugins[m].desc)]

\* C17. Move is an involution: move(plugin, up) of a plugin that is not the
\* head followed by move(plugin, down), and move(plugin, down) of a plugin
\* that is not the tail followed by move(plugin, up), leave chain, chain_end,
\* every prev and next and every holder's aux_ports as they were before the
\* two calls.
MoveThereAndBackRestores ==
    [][ (saved.pending /\ ~saved'.pending) =>
        /\ ~last.early
        /\ ~last'.early
        /\ chain' = saved.rack.chain
        /\ chain_end' = saved.rack.chain_end
        /\ plugins' = saved.rack.plugins ]_vars

\* C17 witness: under a jack client a plugin with aux channels has moved up
\* past a plugin of its descriptor id and back down.
MoveThereAndBackWitness ==
    /\ ~saved.pending
    /\ saved.plugin # NULL
    /\ saved.up = 1
    /\ last.op = "move"
    /\ last.plugin = saved.plugin
    /\ last.arg = 0
    /\ jack_client
    /\ plugins[saved.plugin].desc.aux_channels > 0
    /\ plugins[saved.plugin].prev # NULL
    /\ plugins[plugins[saved.plugin].prev].desc.id = plugins[saved.plugin].desc.id

\* The aux_ports read along the sequence s of plugins over those of
\* descriptor id.
PortSetsAlong(s, pl, id) ==
    LET T == SelectSeq(s, LAMBDA m : pl[m].desc.id = id)
    IN  [i \in 1..Len(T) |-> AuxOf(pl, T[i])]

\* C18. remove shifts the port sets down the chain: under a jack client, if
\* the removed plugin R with aux channels held r and the plugins of its id
\* downstream of it, in chain order, O1..Ok held o1..ok, then afterwards O1
\* holds r, Oi holds o(i-1), R holds ok (r when k = 0), and the port sets read
\* along the chain over the plugins of that id are those read before without
\* the last.
RemoveShiftsPortSets ==
    [][ ( /\ last'.op = "remove"
          /\ jack_client
          /\ plugins[last'.plugin].desc.aux_channels > 0 )
        => LET R == last'.plugin
               O == SameIdDownstream(plugins, R)
               k == Len(O)
               id == plugins[R].desc.id
               was == PortSetsAlong(Forward(Rack), plugins, id)
           IN  /\ k >= 1 => AuxOf(plugins', O[1]) = AuxOf(plugins, R)
               /\ \A i \in 2..k : AuxOf(plugins', O[i]) = AuxOf(plugins, O[i - 1])
               /\ AuxOf(plugins', R) = AuxOf(plugins, IF k = 0 THEN R ELSE O[k])
               /\ PortSetsAlong(Forward(RackAfter), plugins', id)
                      = SubSeq(was, 1, Len(was) - 1) ]_vars

\* C18 witness: under a jack client a plugin with aux channels has been
\* removed from between two plugins of its descriptor id.
RemoveShiftsWitness ==
    /\ last.op = "remove"
    /\ jack_client
    /\ plugins[last.plugin].desc.aux_channels > 0
    /\ Len(SameIdDownstream(plugins, last.plugin)) = 1
    /\ plugins[last.plugin].prev # NULL
    /\ plugins[plugins[last.plugin].prev].desc.id = plugins[last.plugin].desc.id
    /\ plugins[last.plugin].prev \in Linked(Rack)

(***************************************************************************)
(* Conservation of the aux port arrays.                                    *)
(***************************************************************************)
\* The plugins of descriptor id that exist in pl and have a copy c.
HoldersWith(pl, id, c) ==
    { n \in Nodes : pl[n].mem = "live" /\ pl[n].desc.id = id /\ c \in DOMAIN pl[n].holders }

\* The aux_ports arrays their copies c hold.
PortArrays(pl, id, c) ==
    { pl[n].holders[c].aux_ports : n \in HoldersWith(pl, id, c) }

\* C19. The aux port arrays are conserved by add, remove, move and change:
\* for every descriptor id and copy index the arrays held by the existing
\* plugins of that id in that copy, linked or not, are the same arrays as
\* before, each held by one holder; and the plugins whose id differs from the
\* edited plugin's hold what they held.
PortArraysConserved ==
    [][ last'.op \in {"add", "remove", "move", "change"} =>
        /\ \A n \in Live : \A c \in DOMAIN plugins[n].holders :
              LET id == plugins[n].desc.id IN
              /\ HoldersWith(plugins', id, c) = HoldersWith(plugins, id, c)
              /\ PortArrays(plugins', id, c) = PortArrays(plugins, id, c)
              /\ plugins[n].holders[c].aux_ports # Unset =>
                    Cardinality(PortArrays(plugins', id, c))
                        = Cardinality(HoldersWith(plugins', id, c))
        /\ \A n \in Live :
              plugins[n].desc.id # plugins[last'.plugin].desc.id =>
                  AuxOf(plugins', n) = AuxOf(plugins, n) ]_vars

\* C19 witness: under a jack client a plugin with aux channels and two copies
\* has moved past a plugin of its descriptor id, the two having swapped their
\* arrays, while a plugin of another id with aux channels is in the chain.
PortArraysWitness ==
    /\ last.op = "move"
    /\ ~last.early
    /\ jack_client
    /\ plugins[last.plugin].copies = 2
    /\ plugins[last.plugin].desc.aux_channels > 0
    /\ AuxOf(plugins, last.plugin) # [c \in 1..2 |-> CreateAuxPorts(last.plugin, c, plugins[last.plugin].desc)]
    /\ \E m \in Linked(Rack) :
          /\ plugins[m].desc.id # plugins[last.plugin].desc.id
          /\ plugins[m].desc.aux_channels > 0

(***************************************************************************)
(* The displaced plugin under a concurrent traversal.                      *)
(***************************************************************************)
\* The part of the sequence s after n.
SuffixAfter(s, n) == SubSeq(s, IndexOf(s, n) + 1, Len(s))

\* C20. A displaced plugin keeps its links: no statement of remove(plugin) or
\* change(plugin, new_plugin) writes plugin->prev or plugin->next, so that at
\* every point of the edit the walk from plugin->next along next visits the
\* plugins that followed the plugin when the edit began and reaches NULL; and
\* when the edit has run to its end the plugin is reached neither from chain
\* along next nor from chain_end along prev.
DisplacedKeepsLinks ==
    [][ (pc >= 1 /\ call.op \in {"remove", "change"}) =>
        LET plugin == call.plugin IN
        /\ plugins'[plugin].prev = plugins[plugin].prev
        /\ plugins'[plugin].next = plugins[plugin].next
        /\ WalkNext(plugins', plugins'[plugin].next, MaxNodes + 1)
               = SuffixAfter(before, plugin)
        /\ pc' = 0 => /\ plugin \notin Linked(RackAfter)
                      /\ plugin \notin Range(Backward(RackAfter)) ]_vars

\* C20 witness: remove has executed its pointer writes while the audio path
\* was visiting the removed plugin, which is no longer in the chain and has a
\* plugin after it.
DisplacedKeepsLinksWitness ==
    /\ pc = 3
    /\ call.op = "remove"
    /\ walking
    /\ cursor = call.plugin
    /\ call.plugin \notin Linked(Rack)
    /\ plugins[call.plugin].next \in Linked(Rack)

====
